---- MODULE Spec2Model ----
(***************************************************************************)
(* EmbeddedCompositeHost (embeddedCompositeHost.ts) and                    *)
(* MobileSidebarWidget (mobileSidebarWidget.ts).                           *)
(*                                                                         *)
(* Two specifications over one set of variables:                           *)
(*   Spec   one stand-alone EmbeddedCompositeHost driven by arbitrary      *)
(*          callers (openComposite, disposeComposite, layout, dispose);    *)
(*   WSpec  a MobileSidebarWidget with the hosts it creates, driven by     *)
(*          button clicks, refresh(), layout() and window reloads.         *)
(*                                                                         *)
(* JavaScript runs handlers to completion; an async function runs          *)
(* synchronously up to its first await and its continuation is a microtask.*)
(* Microtasks run in FIFO order (mq); callers may run synchronous code     *)
(* (further calls) between any two microtasks.                             *)
(***************************************************************************)
EXTENDS Integers, Sequences, FiniteSets, TLC

VARIABLES
    hosts,      \* every EmbeddedCompositeHost constructed so far
    insts,      \* every PaneComposite instantiated so far, with its container element
    mq,         \* microtask queue: continuations of awaiting async calls
    wrappers,   \* the content wrappers showViewlet created
    widget,     \* the MobileSidebarWidget's own fields
    storage,    \* IStorageService (workspace scope)
    containers, \* IViewDescriptorService: sidebar view containers, in order
    lastOp      \* the operation that produced the current state (history)

vars == <<hosts, insts, mq, wrappers, widget, storage, containers, lastOp>>

None == "none"

\* ---------------------------------------------------------------- bounds
MaxInst == 2
MaxShows == 3

\* ---------------------------------------------------------------- environment
\* Composite / viewlet ids.  "custom" is a sidebar view container without a
\* registered pane composite descriptor; "gone" is neither.
\* "explorer" .. "extensions" stand for 'workbench.view.explorer' ..
\* 'workbench.view.extensions'.
Ids == {"explorer", "search", "scm", "debug", "extensions", "custom", "gone"}

\* registry.getPaneComposite(id) returns a descriptor
Registered == {"explorer", "search"}

\* getBoundingClientRect() results and layout() arguments
Dim(w, h) == [width |-> w, height |-> h]
NoDim == Dim(-1, -1)
Bounds == {Dim(100, 100)}

\* descriptor.instantiate: returns a composite, returns nothing, or throws
InstOutcomes == {"ok", "null", "throws"}
\* the calls into the new composite after instantiation: all succeed ("ok"),
\* composite.create / updateStyles throws ("throws"), or setVisible(true) /
\* layout throws inside showComposite ("showThrows")
CreateOutcomes == {"ok", "throws", "showThrows"}

Range(f) == {f[i] : i \in DOMAIN f}

\* ---------------------------------------------------------------- host: data
\* new EmbeddedCompositeHost(container, location, ...)
NewHost(w) ==
    [composites |-> << >>,      \* Map<string, entry>; entry = instance number
     current |-> None,          \* currentCompositeId
     creating |-> {},           \* creatingComposites
     disposed |-> FALSE,        \* dispose() has run
     wrapper |-> w]             \* the container element (0: caller's own element)

\* descriptor.instantiate(...): a fresh PaneComposite; its container element is
\* created later (display none, not attached)
NewInst(h, id) ==
    [cid |-> id, host |-> h, disposed |-> FALSE, visible |-> FALSE,
     display |-> "none", attached |-> FALSE, layout |-> NoDim]

HasEntry(H, h, id) == id \in DOMAIN H[h].composites

MapDelete(m, id) == [k \in (DOMAIN m) \ {id} |-> m[k]]
MapSet(m, id, n) == [k \in (DOMAIN m) \cup {id} |-> IF k = id THEN n ELSE m[k]]

\* a continuation waiting on the microtask queue: the call it belongs to (its
\* host, id, the composite it instantiated, whether instantiate succeeded, the
\* wrapper of the showViewlet that awaits it) and, as history, the composites
\* map the host had when the call was made and the composite that was current
\* and visible then (0: none)
Cont(kind, h, id, n, io, w, pre, vis) ==
    [kind |-> kind, h |-> h, id |-> id, n |-> n, io |-> io, w |-> w, pre |-> pre,
     vis |-> vis]

\* the composite of host h that is current and visible (0: none)
VisibleCurrent(H, I, h) ==
    LET a == H[h].current
    IN IF a # None /\ HasEntry(H, h, a)
       THEN LET n == H[h].composites[a]
            IN IF I[n].visible /\ I[n].display = "block" /\ ~I[n].disposed THEN n ELSE 0
       ELSE 0

\* what an operation did, kept in lastOp

Op(op, h, id, res, n, dim) ==
    [op |-> op, h |-> h, id |-> id, res |-> res, n |-> n, dim |-> dim]

\* ---------------------------------------------------------------- host: helpers
\* setVisible(false), disposables.dispose(), container.remove() on one composite
DisposeEntry(I, n) ==
    [I EXCEPT ![n].visible = FALSE, ![n].disposed = TRUE, ![n].attached = FALSE]

\* hideComposite(compositeId)
HideComposite(I, H, h, id) ==
    IF ~HasEntry(H, h, id) THEN I
    ELSE LET n == H[h].composites[id]
         IN [I EXCEPT ![n].visible = FALSE, ![n].display = "none"]

\* showComposite(compositeId); bounds = this.container.getBoundingClientRect()
ShowComposite(s, h, id, bounds) ==
    IF ~HasEntry(s.hosts, h, id) THEN s
    ELSE LET cur == s.hosts[h].current
             n == s.hosts[h].composites[id]
             I1 == IF cur # None /\ cur # id
                   THEN HideComposite(s.insts, s.hosts, h, cur)
                   ELSE s.insts
             I2 == [I1 EXCEPT ![n].display = "block", ![n].visible = TRUE,
                              ![n].layout = bounds]
         IN [hosts |-> [s.hosts EXCEPT ![h].current = id], insts |-> I2]

\* mutant of IsCreating: no guard against concurrent creation
IsCreatingUnchecked(H, h, id) == FALSE

\* showComposite(compositeId) when entry.composite.setVisible(true) or layout
\* throws: the current composite has been hidden, the container has display
\* block, currentCompositeId has not been assigned
ShowCompositeThrows(s, h, id) ==
    LET cur == s.hosts[h].current
        n == s.hosts[h].composites[id]
        I1 == IF cur # None /\ cur # id
              THEN HideComposite(s.insts, s.hosts, h, cur)
              ELSE s.insts
    IN [s EXCEPT !.insts = [I1 EXCEPT ![n].display = "block", ![n].visible = TRUE]]

\* "Prevent concurrent creation of the same composite"
IsCreating(H, h, id) == id \in H[h].creating

\* existing && !existing.disposables.isDisposed
LiveEntry(s, h, id) ==
    HasEntry(s.hosts, h, id) /\ ~s.insts[s.hosts[h].composites[id]].disposed

\* if (existing) this.composites.delete(compositeId)   (a disposed entry)
DropEntry(s, h, id) ==
    IF HasEntry(s.hosts, h, id)
    THEN [s EXCEPT !.hosts[h].composites = MapDelete(@, id)]
    ELSE s

\* finally { this.creatingComposites.delete(compositeId) }
FinallyCreating(H, h, id) == [H EXCEPT ![h].creating = @ \ {id}]

\* ---------------------------------------------------------------- host: operations
\* openComposite(compositeId), the synchronous part: everything up to
\* "await this.createComposite(descriptor)" or to an earlier return.
\* io is what descriptor.instantiate does.  The result tells how the call went
\* on (res), the composite concerned (n, 0 for none) and the new state (s).
OpenSync(s, h, id, io, bounds) ==
    IF IsCreating(s.hosts, h, id)
    THEN [s |-> s, res |-> "creating", n |-> 0]
    ELSE IF s.hosts[h].current = id /\ LiveEntry(s, h, id)
    THEN [s |-> ShowComposite(s, h, id, bounds), res |-> "existing",
          n |-> s.hosts[h].composites[id]]
    ELSE
      LET s1 == IF s.hosts[h].current = id THEN DropEntry(s, h, id) ELSE s
          cur == s1.hosts[h].current
          s2 == IF cur # None
                THEN [s1 EXCEPT !.insts = HideComposite(s1.insts, s1.hosts, h, cur)]
                ELSE s1
      IN IF LiveEntry(s2, h, id)
         THEN [s |-> ShowComposite(s2, h, id, bounds), res |-> "existing",
               n |-> s2.hosts[h].composites[id]]
         ELSE
           LET s3 == DropEntry(s2, h, id)
           IN IF id \notin Registered
              THEN [s |-> s3, res |-> "noDescriptor", n |-> 0]
              ELSE
                LET s4 == [s3 EXCEPT !.hosts[h].creating = @ \cup {id}]
                IN IF io = "ok"
                   THEN [s |-> [s4 EXCEPT !.insts = Append(@, NewInst(h, id))],
                         res |-> "pending", n |-> Len(s4.insts) + 1]
                   ELSE [s |-> s4, res |-> "pending", n |-> 0]

\* the inner catch (createError) and the outer catch: disposables.dispose(),
\* compositeContainer.remove(); the map is not touched
CreateFailed(I, n) == [I EXCEPT ![n].disposed = TRUE, ![n].attached = FALSE]

\* this.container.appendChild(compositeContainer); this.composites.set(...)
StoreComposite(s, h, id, n) ==
    [hosts |-> [s.hosts EXCEPT ![h].composites = MapSet(@, id, n)],
     insts |-> [s.insts EXCEPT ![n].attached = TRUE]]

\* openComposite(compositeId), the continuation after the await.  k is the
\* continuation (host, id, instantiate's outcome, the composite), co is what
\* composite.create / updateStyles do.
OpenResume(s, k, co, bounds) ==
    LET fin(x) == [x EXCEPT !.hosts = FinallyCreating(x.hosts, k.h, k.id)]
    IN IF k.io = "throws" THEN [s |-> fin(s), res |-> "instThrew", n |-> 0]
       ELSE IF k.io = "null" THEN [s |-> fin(s), res |-> "null", n |-> 0]
       ELSE IF co = "throws"
       THEN [s |-> fin([s EXCEPT !.insts = CreateFailed(s.insts, k.n)]),
             res |-> "createThrew", n |-> k.n]
       ELSE IF co = "showThrows"
       THEN LET s1 == ShowCompositeThrows(StoreComposite(s, k.h, k.id, k.n), k.h, k.id)
            IN [s |-> fin([s1 EXCEPT !.insts = CreateFailed(s1.insts, k.n)]),
                res |-> "showThrew", n |-> k.n]
       ELSE [s |-> fin(ShowComposite(StoreComposite(s, k.h, k.id, k.n),
                                     k.h, k.id, bounds)),
             res |-> "opened", n |-> k.n]

\* disposeComposite(compositeId)
HostDisposeComposite(s, h, id) ==
    IF ~HasEntry(s.hosts, h, id) THEN s
    ELSE LET n == s.hosts[h].composites[id]
             isCur == s.hosts[h].current = id
             I1 == IF isCur THEN HideComposite(s.insts, s.hosts, h, id) ELSE s.insts
             H1 == IF isCur THEN [s.hosts EXCEPT ![h].current = None] ELSE s.hosts
         IN [hosts |-> [H1 EXCEPT ![h].composites = MapDelete(@, id)],
             insts |-> DisposeEntry(I1, n)]

\* layout(dimension)
HostLayout(s, h, dim) ==
    LET cur == s.hosts[h].current
    IN IF cur # None /\ HasEntry(s.hosts, h, cur)
       THEN [s EXCEPT !.insts[s.hosts[h].composites[cur]].layout = dim]
       ELSE s

\* dispose(): every entry of the map is disposed, the map is cleared
HostDispose(s, h) ==
    LET held == Range(s.hosts[h].composites)
    IN [hosts |-> [s.hosts EXCEPT ![h].composites = << >>, ![h].disposed = TRUE],
        insts |-> [n \in DOMAIN s.insts |->
                     IF n \in held THEN DisposeEntry(s.insts, n)[n] ELSE s.insts[n]]]

\* ---------------------------------------------------------------- Spec: one host
World == [hosts |-> hosts, insts |-> insts]

HostIds == {"explorer", "search", "custom"}
HostDims == {Dim(200, 52)}

NoWidget ==
    [current |-> None, host |-> 0, buttons |-> << >>, bar |-> NoDim, content |-> NoDim]
NoStorage == [last |-> None, pinned |-> None]
WidgetIdle == UNCHANGED <<wrappers, widget, storage, containers>>

Init ==
    /\ hosts = <<NewHost(0)>>
    /\ insts = << >>
    /\ mq = << >>
    /\ wrappers = << >>
    /\ widget = NoWidget
    /\ storage = NoStorage
    /\ containers = << >>
    /\ lastOp = Op("new", 1, None, None, 0, NoDim)

\* what descriptor.instantiate may do, where the call gets that far
InstChoices(s, h, id) ==
    IF OpenSync(s, h, id, "null", CHOOSE b \in Bounds : TRUE).res = "pending"
    THEN InstOutcomes
    ELSE {"null"}

\* a caller calls host.openComposite(id); the owner of a host does not open
\* composites on it after disposing it (calls already awaiting still continue)
OpenComposite ==
    \E id \in HostIds, b \in Bounds :
      \E io \in InstChoices(World, 1, id) :
        LET r == OpenSync(World, 1, id, io, b)
        IN /\ ~hosts[1].disposed
           /\ Len(r.s.insts) <= MaxInst
           /\ hosts' = r.s.hosts
           /\ insts' = r.s.insts
           /\ mq' = IF r.res = "pending"
                    THEN Append(mq, Cont("open", 1, id, r.n, io, 0, hosts[1].composites,
                                         VisibleCurrent(hosts, insts, 1)))
                    ELSE mq
           /\ lastOp' = Op("open", 1, id, r.res, r.n, NoDim)
           /\ WidgetIdle

\* the microtask at the head of the queue runs: an openComposite continues
ResumeOpen ==
    /\ mq # << >>
    /\ Head(mq).kind = "open"
    /\ Head(mq).w = 0
    /\ \E co \in IF Head(mq).io = "ok" THEN CreateOutcomes ELSE {"ok"}, b \in Bounds :
         LET k == Head(mq)
             r == OpenResume(World, k, co, b)
         IN /\ hosts' = r.s.hosts
            /\ insts' = r.s.insts
            /\ mq' = Tail(mq)
            /\ lastOp' = Op("resume", k.h, k.id, r.res, r.n, NoDim)
    /\ WidgetIdle

\* a caller calls host.disposeComposite(id)
DisposeComposite ==
    \E id \in HostIds :
      LET s == HostDisposeComposite(World, 1, id)
      IN /\ hosts' = s.hosts
         /\ insts' = s.insts
         /\ lastOp' = Op("disposeComposite", 1, id,
                         IF HasEntry(hosts, 1, id) THEN "disposed" ELSE "absent",
                         IF HasEntry(hosts, 1, id) THEN hosts[1].composites[id] ELSE 0,
                         NoDim)
         /\ UNCHANGED mq
         /\ WidgetIdle

\* a caller calls host.layout(dim)
Layout ==
    \E d \in HostDims :
      LET s == HostLayout(World, 1, d)
      IN /\ hosts' = s.hosts
         /\ insts' = s.insts
         /\ lastOp' = Op("layout", 1, hosts[1].current, None, 0, d)
         /\ UNCHANGED mq
         /\ WidgetIdle

\* a caller calls host.dispose()
Dispose ==
    LET s == HostDispose(World, 1)
    IN /\ hosts' = s.hosts
       /\ insts' = s.insts
       /\ lastOp' = Op("dispose", 1, None, None, 0, NoDim)
       /\ UNCHANGED mq
       /\ WidgetIdle

Next ==
    \/ OpenComposite
    \/ ResumeOpen
    \/ DisposeComposite
    \/ Layout
    \/ Dispose

Spec == Init /\ [][Next]_vars

\* ================================================================ MobileSidebarWidget
\* ---------------------------------------------------------------- environment
ActivityBarHeight == 48

\* the values storage may hold under 'workbench.activity.pinnedViewlets2'
\* (None: nothing stored)
PinnedValues == {None, "[]", "{}", "[\"search\",\"explorer\"]", "[\"gone\"]", "not json"}

\* the sidebar view containers the view descriptor service may return
ContainerLists == {<<"explorer", "search">>, <<"search", "custom">>}

\* getActivePaneComposite(Sidebar)?.getId()
ActiveComposites == {None, "explorer", "search"}

\* the dimensions the workbench lays the widget out with
WidgetDims == {Dim(300, 148)}

\* createInstance(EmbeddedCompositeHost, ...): succeeds or throws
HostOutcomes == {"ok", "throws"}

\* descriptor.instantiate under the widget: a composite (a null composite or a
\* throw resolves openComposite to undefined just as a failure of create or of
\* showComposite does; Spec covers them on the host)
WidgetInstOutcomes == {"ok"}

\* JSON.parse of a stored string: ok = it parsed, array = Array.isArray(value)
JSONParse(str) ==
    CASE str = "[]" -> [ok |-> TRUE, array |-> TRUE, value |-> << >>]
      [] str = "[\"search\",\"explorer\"]" ->
           [ok |-> TRUE, array |-> TRUE, value |-> <<"search", "explorer">>]
      [] str = "[\"gone\"]" -> [ok |-> TRUE, array |-> TRUE, value |-> <<"gone">>]
      [] str = "{}" -> [ok |-> TRUE, array |-> FALSE, value |-> << >>]
      [] OTHER -> [ok |-> FALSE, array |-> FALSE, value |-> << >>]

\* "Default viewlets if nothing stored"
DefaultPinned == <<"explorer", "search", "scm", "debug", "extensions">>

\* getPinnedViewletIds()
GetPinnedViewletIds(st) ==
    LET pinnedString == IF st.pinned = None THEN "[]" ELSE st.pinned
        pinned == JSONParse(pinnedString)
    IN IF pinned.ok /\ pinned.array /\ Len(pinned.value) > 0
       THEN pinned.value
       ELSE DefaultPinned

\* viewDescriptorService.getViewContainerById(id) finds a container
HasViewContainer(cs, id) == id \in Range(cs)

\* the containers shown as buttons: the pinned ones in pinned order, or, when
\* none of them exists, all containers (createActivityBar, updateActiveButton)
ButtonContainers(st, cs) ==
    LET vc == SelectSeq(GetPinnedViewletIds(st), LAMBDA id : id \in Range(cs))
    IN IF Len(vc) = 0 THEN cs ELSE vc

\* createActivityBar(): one button per container; its click handler shows
\* container.id
CreateActivityBar(st, cs) ==
    LET vc == ButtonContainers(st, cs)
    IN [i \in 1..Len(vc) |-> [target |-> vc[i], checked |-> FALSE]]

\* updateActiveButton(viewletId)
UpdateActiveButton(S, cs, v) ==
    LET vc == ButtonContainers(S.storage, cs)
    IN [S EXCEPT !.widget.buttons =
          [i \in DOMAIN @ |-> [@[i] EXCEPT !.checked = (i <= Len(vc) /\ vc[i] = v)]]]

\* showPlaceholder(wrapper, viewletId): wrapper.innerHTML = ... replaces
\* whatever the wrapper held
ShowPlaceholder(S, cs, w, v) ==
    IF HasViewContainer(cs, v)
    THEN [S EXCEPT !.wrappers[w].placeholder = TRUE,
                   !.insts = [n \in DOMAIN @ |->
                                IF S.hosts[@[n].host].wrapper = w
                                THEN [@[n] EXCEPT !.attached = FALSE]
                                ELSE @[n]]]
    ELSE S

\* the part of the state the host operations work on, and back
WorldOf(S) == [hosts |-> S.hosts, insts |-> S.insts]
WithWorld(S, s) == [S EXCEPT !.hosts = s.hosts, !.insts = s.insts]

\* showViewlet's last two statements: updateActiveButton(viewletId);
\* this._onDidChangeActiveComposite.fire()
ShowDone(S, cs, v, res, n, w) ==
    [S |-> UpdateActiveButton(S, cs, v), fired |-> TRUE, res |-> res, n |-> n, w |-> w]

\* showViewlet(viewletId), the synchronous part: up to
\* "await this.embeddedHost.openComposite(viewletId)", or to the end when the
\* host cannot be constructed.  hc: what createInstance does; io: what
\* descriptor.instantiate does.
ShowViewletSync(S, cs, v, hc, io, b) ==
    IF S.widget.current = v
    THEN [S |-> S, fired |-> FALSE, res |-> "same", n |-> 0, w |-> 0]
    ELSE
      LET S1 == [S EXCEPT !.widget.current = v, !.storage.last = v,
                          !.wrappers = [i \in DOMAIN @ |-> [@[i] EXCEPT !.attached = FALSE]]]
          S2 == IF S1.widget.host # 0
                THEN [WithWorld(S1, HostDispose(WorldOf(S1), S1.widget.host))
                        EXCEPT !.widget.host = 0]
                ELSE S1
          w == Len(S2.wrappers) + 1
          S3 == [S2 EXCEPT !.wrappers =
                   Append(@, [id |-> v, attached |-> TRUE, placeholder |-> FALSE])]
      IN IF hc = "throws"
         THEN ShowDone(ShowPlaceholder(S3, cs, w, v), cs, v, "hostThrew", 0, w)
         ELSE
           LET h == Len(S3.hosts) + 1
               S4 == [S3 EXCEPT !.hosts = Append(@, NewHost(w)), !.widget.host = h]
               r == OpenSync(WorldOf(S4), h, v, io, b)
               S5 == WithWorld(S4, r.s)
               k == IF r.res = "pending"
                    THEN Cont("open", h, v, r.n, io, w, << >>, 0)
                    ELSE Cont("show", h, v, r.n, "", w, << >>, 0)
           IN [S |-> [S5 EXCEPT !.mq = Append(@, k)], fired |-> FALSE,
               res |-> "awaiting", n |-> r.n, w |-> w]

\* showViewlet(viewletId), the continuation after the await: k.n is the
\* composite openComposite resolved to (0: undefined)
ShowViewletResume(S, cs, k, b) ==
    IF k.n # 0
    THEN IF S.widget.host = 0
         THEN \* this.embeddedHost is undefined: the TypeError is caught
              ShowDone(ShowPlaceholder(S, cs, k.w, k.id), cs, k.id, "layoutThrew", k.n, k.w)
         ELSE ShowDone(WithWorld(S, HostLayout(WorldOf(S), S.widget.host, b)),
                       cs, k.id, "rendered", k.n, k.w)
    ELSE ShowDone(ShowPlaceholder(S, cs, k.w, k.id), cs, k.id, "placeholder", 0, k.w)

\* mutant of RestoreTarget: the stored viewlet is looked at after the pinned ones
RestoreTargetPinnedFirst(st, cs) ==
    LET pinned == GetPinnedViewletIds(st)
    IN IF Len(pinned) > 0 THEN pinned[1]
       ELSE IF st.last # None /\ st.last \in Range(cs) THEN st.last
       ELSE IF Len(cs) > 0 THEN cs[1] ELSE None

\* restoreLastActiveViewlet(): the viewlet it shows (None: it shows nothing)
RestoreTarget(st, cs) ==
    IF st.last # None /\ st.last \in Range(cs)
    THEN st.last
    ELSE LET pinned == GetPinnedViewletIds(st)
         IN IF Len(pinned) > 0 THEN pinned[1]
            ELSE IF Len(cs) > 0 THEN cs[1] ELSE None

\* refresh(): the viewlet it shows; active is the sidebar's active composite
RefreshTarget(st, cs, active) ==
    IF st.last # None /\ st.last \in Range(cs)
    THEN st.last
    ELSE IF active # None THEN active
    ELSE LET pinned == GetPinnedViewletIds(st)
         IN IF Len(pinned) > 0 THEN pinned[1]
            ELSE IF Len(cs) > 0 THEN cs[1] ELSE None

\* mutant of WidgetLayoutOp: the host gets the widget's whole dimension
WidgetLayoutOpFullHeight(S, d) ==
    LET S1 == [S EXCEPT !.widget.bar = Dim(d.width, ActivityBarHeight),
                        !.widget.content = Dim(d.width, d.height - ActivityBarHeight)]
    IN IF S1.widget.host # 0
       THEN WithWorld(S1, HostLayout(WorldOf(S1), S1.widget.host, d))
       ELSE S1

\* layout(dimension) of the widget
WidgetLayoutOp(S, d) ==
    LET contentHeight == d.height - ActivityBarHeight
        S1 == [S EXCEPT !.widget.bar = Dim(d.width, ActivityBarHeight),
                        !.widget.content = Dim(d.width, contentHeight)]
    IN IF S1.widget.host # 0
       THEN WithWorld(S1, HostLayout(WorldOf(S1), S1.widget.host,
                                     Dim(d.width, contentHeight)))
       ELSE S1

\* new MobileSidebarWidget(...): the fields, createActivityBar(),
\* restoreLastActiveViewlet()
Construct(st, cs, hc, io, b) ==
    LET S0 == [hosts |-> << >>, insts |-> << >>, mq |-> << >>, wrappers |-> << >>,
               widget |-> [current |-> None, host |-> 0,
                           buttons |-> CreateActivityBar(st, cs),
                           bar |-> NoDim, content |-> NoDim],
               storage |-> st]
        v == RestoreTarget(st, cs)
    IN IF v = None
       THEN [S |-> S0, fired |-> FALSE, res |-> "nothing", n |-> 0, w |-> 0]
       ELSE ShowViewletSync(S0, cs, v, hc, io, b)

\* ---------------------------------------------------------------- WSpec
State ==
    [hosts |-> hosts, insts |-> insts, mq |-> mq, wrappers |-> wrappers,
     widget |-> widget, storage |-> storage]

Becomes(S) ==
    /\ hosts' = S.hosts
    /\ insts' = S.insts
    /\ mq' = S.mq
    /\ wrappers' = S.wrappers
    /\ widget' = S.widget
    /\ storage' = S.storage

\* lastOp of a widget operation; for "construct" and "reload" id is the last
\* active viewlet storage held before the constructor ran
WOp(op, r, id, dim) ==
    [op |-> op, h |-> r.w, id |-> id, res |-> r.res, n |-> r.n, dim |-> dim,
     fired |-> r.fired]

\* what storage may hold under LAST_ACTIVE_VIEWLET_KEY when the first widget is
\* constructed (None: nothing stored)
LastActiveValues == {None, "search", "custom"}

\* what createInstance and descriptor.instantiate may do in showViewlet(v),
\* where the call gets that far
ShowChoices(S, v) ==
    IF S.widget.current = v THEN {<<"ok", "null">>}
    ELSE {<<hc, "null">> : hc \in HostOutcomes \ {"ok"}} \cup
         {<<"ok", io>> : io \in IF v \in Registered THEN WidgetInstOutcomes ELSE {"null"}}

WInit ==
    \E last \in LastActiveValues, pv \in PinnedValues, cs \in ContainerLists, b \in Bounds :
      LET st == [last |-> last, pinned |-> pv]
      IN \E c \in ShowChoices([widget |-> [current |-> None]], RestoreTarget(st, cs)) :
           LET r == Construct(st, cs, c[1], c[2], b)
           IN /\ hosts = r.S.hosts
              /\ insts = r.S.insts
              /\ mq = r.S.mq
              /\ wrappers = r.S.wrappers
              /\ widget = r.S.widget
              /\ storage = r.S.storage
              /\ containers = cs
              /\ lastOp = WOp("construct", r, last, NoDim)

\* a showViewlet(v) call from a handler
CallShowViewlet(op, v) ==
    \E c \in ShowChoices(State, v), b \in Bounds :
      LET r == ShowViewletSync(State, containers, v, c[1], c[2], b)
      IN /\ Len(r.S.wrappers) <= MaxShows
         /\ Becomes(r.S)
         /\ lastOp' = WOp(op, r, v, NoDim)
         /\ UNCHANGED containers

\* a button is clicked (or Enter / Space pressed on it)
Click ==
    \E v \in {widget.buttons[i].target : i \in DOMAIN widget.buttons} :
      CallShowViewlet("showViewlet", v)

\* refresh()
Refresh ==
    \E v \in {RefreshTarget(storage, containers, a) : a \in ActiveComposites} \ {None} :
      CallShowViewlet("showViewlet", v)

\* layout(dimension)
WidgetLayout ==
    \E d \in WidgetDims :
      /\ Becomes(WidgetLayoutOp(State, d))
      /\ lastOp' = [op |-> "wlayout", h |-> widget.host, id |-> None, res |-> None,
                    n |-> 0, dim |-> d, fired |-> FALSE]
      /\ UNCHANGED containers

\* the microtask at the head of the queue runs: the openComposite a showViewlet
\* awaits continues, and resolves the promise showViewlet awaits
WResumeOpen ==
    /\ mq # << >>
    /\ Head(mq).kind = "open"
    /\ Head(mq).w # 0
    /\ \E co \in IF Head(mq).io = "ok" THEN CreateOutcomes ELSE {"ok"}, b \in Bounds :
         LET k == Head(mq)
             r == OpenResume(World, k, co, b)
             ret == IF r.res = "opened" THEN r.n ELSE 0
         IN /\ hosts' = r.s.hosts
            /\ insts' = r.s.insts
            /\ mq' = Append(Tail(mq), Cont("show", k.h, k.id, ret, "", k.w, << >>, 0))
            /\ lastOp' = [op |-> "resume", h |-> k.h, id |-> k.id, res |-> r.res,
                          n |-> r.n, dim |-> NoDim, fired |-> FALSE]
    /\ UNCHANGED <<wrappers, widget, storage, containers>>

\* the microtask at the head of the queue runs: a showViewlet continues
ResumeShow ==
    /\ mq # << >>
    /\ Head(mq).kind = "show"
    /\ \E b \in Bounds :
         LET k == Head(mq)
             r == ShowViewletResume([State EXCEPT !.mq = Tail(mq)], containers, k, b)
         IN /\ Becomes(r.S)
            /\ lastOp' = WOp("shown", r, k.id, b)
    /\ UNCHANGED containers

\* the window is reloaded: a new widget is constructed over the same storage
Reload ==
    \E c \in ShowChoices([widget |-> [current |-> None]], RestoreTarget(storage, containers)),
       b \in Bounds :
      LET r == Construct(storage, containers, c[1], c[2], b)
      IN /\ Becomes(r.S)
         /\ lastOp' = WOp("reload", r, storage.last, NoDim)
         /\ UNCHANGED containers

WNext ==
    \/ Click
    \/ Refresh
    \/ WidgetLayout
    \/ WResumeOpen
    \/ ResumeShow
    \/ Reload

WSpec == WInit /\ [][WNext]_vars

\* ================================================================ claims on Spec
\* ids of the openComposite calls of host h that are awaiting
InFlight(h) == {mq[i].id : i \in {j \in DOMAIN mq : mq[j].kind = "open" /\ mq[j].h = h}}
InstsOf(h) == {n \in DOMAIN insts : insts[n].host = h}

\* C1 (as claimed): once dispose() has been called on a host, no openComposite
\* was called after it and every openComposite in flight has completed, every
\* composite the host instantiated is disposed, its container is not a child of
\* the host container, and the composites map is empty.
C1_SafeTeardown ==
    \A h \in DOMAIN hosts :
      (hosts[h].disposed /\ InFlight(h) = {}) =>
        /\ DOMAIN hosts[h].composites = {}
        /\ \A n \in InstsOf(h) : insts[n].disposed /\ ~insts[n].attached

\* C2: when openComposite(B) succeeds while another composite A is current, A is
\* hidden (setVisible(false), display none), not disposed, and keeps its map
\* entry; and a composite held in the map (before the step or after it) is
\* disposed only by disposeComposite(its id) or by dispose() of the host.
C2_HideWithoutDestroy ==
    [][ /\ \A h \in DOMAIN hosts :
             LET a == hosts[h].current
             IN ( /\ lastOp'.h = h
                  /\ lastOp'.op \in {"open", "resume"}
                  /\ lastOp'.res \in {"existing", "opened"}
                  /\ a # None /\ a # lastOp'.id /\ HasEntry(hosts, h, a) ) =>
                  /\ HasEntry(hosts', h, a)
                  /\ hosts'[h].composites[a] = hosts[h].composites[a]
                  /\ ~insts'[hosts[h].composites[a]].disposed
                  /\ ~insts'[hosts[h].composites[a]].visible
                  /\ insts'[hosts[h].composites[a]].display = "none"
                  /\ hosts'[h].current = lastOp'.id
        /\ \A n \in DOMAIN insts :
             LET h == insts[n].host
             IN ( /\ ~insts[n].disposed /\ insts'[n].disposed
                  /\ n \in Range(hosts[h].composites) \cup Range(hosts'[h].composites) ) =>
                  /\ lastOp'.h = h
                  /\ \/ lastOp'.op = "dispose"
                     \/ lastOp'.op = "disposeComposite" /\ lastOp'.id = insts[n].cid
      ]_vars

\* C3: a composite is instantiated only by openComposite(id) for an id without a
\* map entry; openComposite(id) for an id with an entry returns that entry's
\* composite and instantiates nothing; so at most one live (instantiated, not
\* disposed) composite exists per id and host.
Live(h, id, I) == {n \in DOMAIN I : I[n].host = h /\ I[n].cid = id /\ ~I[n].disposed}

C3_CreateOnDemandReuse ==
    [][ /\ Len(insts') > Len(insts) =>
             /\ lastOp'.op = "open"
             /\ ~HasEntry(hosts, lastOp'.h, lastOp'.id)
             /\ Len(insts') = Len(insts) + 1
             /\ insts'[Len(insts')].cid = lastOp'.id
        /\ (lastOp'.op = "open" /\ HasEntry(hosts, lastOp'.h, lastOp'.id)) =>
             /\ lastOp'.res = "existing"
             /\ lastOp'.n = hosts[lastOp'.h].composites[lastOp'.id]
             /\ Len(insts') = Len(insts)
        /\ \A h \in DOMAIN hosts' : \A id \in Ids :
             Cardinality(Live(h, id, insts')) <= 1
      ]_vars

\* C8: while openComposite(id) is between marking id as creating and its
\* completion, another openComposite(id) returns undefined, instantiates nothing
\* and changes neither the map, currentCompositeId, creatingComposites nor any
\* composite; and whenever no openComposite is in flight, creatingComposites is
\* empty.
C8_NoConcurrentCreation ==
    [][ /\ \A h \in DOMAIN hosts :
             (lastOp'.op = "open" /\ lastOp'.h = h /\ lastOp'.id \in InFlight(h)) =>
               /\ lastOp'.res = "creating" /\ lastOp'.n = 0
               /\ insts' = insts
               /\ mq' = mq
               /\ hosts'[h].composites = hosts[h].composites
               /\ hosts'[h].current = hosts[h].current
               /\ hosts'[h].creating = hosts[h].creating
        /\ \A h \in DOMAIN hosts' :
             ({mq'[i].id : i \in {j \in DOMAIN mq' : mq'[j].kind = "open" /\ mq'[j].h = h}} = {})
               => hosts'[h].creating = {}
      ]_vars

\* C8 witness: an openComposite(id) found id being created and returned
\* undefined while the first call is still awaiting.
C8_Witness ==
    /\ lastOp.op = "open" /\ lastOp.res = "creating"
    /\ lastOp.id \in InFlight(1)
    /\ lastOp.id \in hosts[1].creating

\* C9: in every reachable state at most one entry of a host's map is visible
\* (setVisible(true) last, display block), and a visible entry is the one named
\* by currentCompositeId.
C9_OneVisible ==
    \A h \in DOMAIN hosts : \A id \in DOMAIN hosts[h].composites :
      LET n == hosts[h].composites[id]
      IN (insts[n].visible \/ insts[n].display = "block") => hosts[h].current = id

\* C10: if create() or updateStyles() throws, openComposite returns undefined,
\* the new composite is disposed, its container is not attached, and the map
\* and currentCompositeId are what they were before the call (compared, for
\* the map, where no other operation ran between the call and its
\* continuation); with no descriptor registered for the id, openComposite
\* returns undefined and leaves the map and creatingComposites unchanged.
C10_FailedCreationCleanup ==
    [][ /\ (lastOp'.op = "resume" /\ lastOp'.res = "createThrew") =>
             LET h == lastOp'.h
                 n == lastOp'.n
             IN /\ n \in DOMAIN insts /\ ~insts[n].disposed
                /\ insts'[n].disposed /\ ~insts'[n].attached
                /\ n \notin Range(hosts'[h].composites)
                /\ hosts'[h].current = hosts[h].current
                /\ lastOp'.id \notin hosts'[h].creating
                /\ (lastOp.op = "open" /\ lastOp.res = "pending" /\ lastOp.n = n) =>
                     hosts'[h].composites = Head(mq).pre
        /\ (lastOp'.op = "open" /\ lastOp'.res = "pending") =>
             hosts'[lastOp'.h].current = hosts[lastOp'.h].current
        /\ (lastOp'.op = "open" /\ lastOp'.id \notin Registered) =>
             /\ lastOp'.res = "noDescriptor" /\ lastOp'.n = 0
             /\ hosts'[lastOp'.h].composites = hosts[lastOp'.h].composites
             /\ hosts'[lastOp'.h].creating = hosts[lastOp'.h].creating
             /\ Len(insts') = Len(insts)
             /\ mq' = mq
      ]_vars

\* ================================================================ claims on WSpec
\* the composite the widget shows: the current composite of its embedded host
\* (0: none)
Shown ==
    IF widget.host # 0 /\ hosts[widget.host].current # None
       /\ HasEntry(hosts, widget.host, hosts[widget.host].current)
    THEN hosts[widget.host].composites[hosts[widget.host].current]
    ELSE 0

\* C4 (as claimed): switching from viewlet A to viewlet B does not destroy A's
\* panel: a showViewlet that switches while no call is in flight leaves the
\* composite that was shown undisposed; and after showViewlet(A),
\* showViewlet(B), showViewlet(A) have all completed and a composite is shown
\* for A, it is the instance the first showViewlet(A) created and showed.
C4_SwitchKeepsPanel ==
    [][ /\ ( /\ lastOp'.op = "showViewlet" /\ lastOp'.res # "same"
             /\ mq = << >> /\ Shown # 0 ) =>
               ~insts'[Shown].disposed
        /\ \A i \in DOMAIN wrappers' :
             ( /\ mq' = << >>
               /\ Len(wrappers') = i + 2
               /\ wrappers'[i + 2].id = wrappers'[i].id
               /\ wrappers'[i + 1].id # wrappers'[i].id
               /\ widget'.host # 0
               /\ HasEntry(hosts', widget'.host, wrappers'[i].id) ) =>
               \A n \in {m \in DOMAIN insts' : hosts'[insts'[m].host].wrapper = i} :
                 insts'[n].layout # NoDim =>
                   /\ ~insts'[n].disposed
                   /\ hosts'[widget'.host].composites[wrappers'[i].id] = n
      ]_vars

\* C5 (as claimed): whenever showViewlet could not render the composite (host
\* construction threw, or openComposite resolved to undefined), the call
\* completed, the wrapper of that call shows the placeholder, the buttons'
\* checked state has been updated for the viewlet and the event has fired.
C5_PlaceholderFallback ==
    (lastOp.op \in {"reload", "showViewlet", "shown"}
       /\ lastOp.res \in {"hostThrew", "placeholder"}) =>
      /\ wrappers[lastOp.h].placeholder
      /\ lastOp.fired
      /\ widget.buttons =
           UpdateActiveButton(State, containers, wrappers[lastOp.h].id).widget.buttons

\* C6 (as claimed, its last part): when the widget has no embedded host, or the
\* host has no entry for its current composite, layout(d) changes no state.
C6_LayoutNoStateChange ==
    [][ (lastOp'.op = "wlayout" /\ Shown = 0) =>
          UNCHANGED <<hosts, insts, mq, wrappers, widget, storage, containers>>
      ]_vars

\* C6 (amended): MobileSidebarWidget.layout(d) sizes its activity bar to
\* (d.width, 48) and its content container to (d.width, d.height - 48), and
\* forwards Dimension(d.width, d.height - 48) to its embedded host when one
\* exists; the host calls layout with it on the composite named by
\* currentCompositeId and on no other composite; with no host or no current
\* entry no composite is laid out; nothing else changes in either case.
C6_LayoutPropagation ==
    [][ lastOp'.op = "wlayout" =>
          LET d == lastOp'.dim
              fwd == Dim(d.width, d.height - ActivityBarHeight)
          IN /\ widget' = [widget EXCEPT !.bar = Dim(d.width, ActivityBarHeight),
                                         !.content = fwd]
             /\ insts' = IF Shown # 0
                         THEN [insts EXCEPT ![Shown].layout = fwd]
                         ELSE insts
             /\ UNCHANGED <<hosts, mq, wrappers, storage, containers>>
      ]_vars

\* C6 witness: the widget has just been laid out while its host shows a
\* composite, another composite (of an earlier host) exists, and only the
\* shown one has the forwarded dimension.
C6_Witness ==
    /\ lastOp.op = "wlayout"
    /\ Shown # 0
    /\ insts[Shown].layout = Dim(lastOp.dim.width, lastOp.dim.height - ActivityBarHeight)
    /\ \E m \in DOMAIN insts :
         m # Shown /\ insts[m].layout # NoDim /\ insts[m].layout # insts[Shown].layout

\* C6 on the host alone (Spec): layout(dim) lays out the current composite with
\* dim and changes nothing else.
C6_HostLayoutOnlyCurrent ==
    [][ lastOp'.op = "layout" =>
          LET cur == hosts[1].current
          IN /\ insts' = IF cur # None /\ HasEntry(hosts, 1, cur)
                         THEN [insts EXCEPT ![hosts[1].composites[cur]].layout = lastOp'.dim]
                         ELSE insts
             /\ UNCHANGED <<hosts, mq>>
      ]_vars

\* C7: a widget constructed over a storage whose last active viewlet X is among
\* the sidebar view containers shows X first (currentViewletId = X) and keeps X
\* stored, whatever the pinned list is.
C7_RestoreRoundTrip ==
    (lastOp.op \in {"construct", "reload"} /\ lastOp.id # None
       /\ lastOp.id \in Range(containers)) =>
      /\ widget.current = lastOp.id
      /\ storage.last = lastOp.id
      /\ wrappers[Len(wrappers)].id = lastOp.id

\* C7 witness: a reloaded widget shows the viewlet the previous widget stored,
\* which is a view container but not the first pinned viewlet.
C7_Witness ==
    /\ lastOp.op = "reload"
    /\ lastOp.id # None
    /\ lastOp.id \in Range(containers)
    /\ lastOp.id # GetPinnedViewletIds(storage)[1]
    /\ widget.current = lastOp.id

\* C11: a failed open does not take away the panel that was showing: when
\* openComposite(B) returns undefined (B is being created, B has no descriptor,
\* or the creation of B fails) and a composite A other than B was current and
\* visible when the call was made, A is visible once the call has completed
\* (for a failing creation, compared where the continuation runs right after
\* the call).
C11_FailedOpenKeepsPanel ==
    [][ /\ (lastOp'.op = "open" /\ lastOp'.res \in {"creating", "noDescriptor"}) =>
             LET a == VisibleCurrent(hosts, insts, lastOp'.h)
             IN (a # 0 /\ insts[a].cid # lastOp'.id) =>
                  /\ insts'[a].visible
                  /\ insts'[a].display = "block"
        /\ ( /\ lastOp'.op = "resume"
             /\ lastOp'.res \in {"instThrew", "null", "createThrew", "showThrew"}
             /\ lastOp.op = "open" /\ lastOp.res = "pending"
             /\ lastOp.id = lastOp'.id ) =>
             LET a == Head(mq).vis
             IN a # 0 =>
                  /\ insts'[a].visible
                  /\ insts'[a].display = "block"
      ]_vars

\* C12: the checked button tracks the active viewlet: whenever no showViewlet
\* call is in flight and currentViewletId has a button in the activity bar,
\* exactly the button whose click handler shows currentViewletId carries
\* 'checked', also after overlapping showViewlet calls.
C12_CheckedTracksActive ==
    ( /\ mq = << >>
      /\ \E i \in DOMAIN widget.buttons : widget.buttons[i].target = widget.current ) =>
      \A i \in DOMAIN widget.buttons :
        widget.buttons[i].checked <=> widget.buttons[i].target = widget.current

\* C13: fallback to the first available container: when the stored last-active
\* viewlet is missing or not a sidebar container (for refresh also: there is no
\* active pane composite) and storage holds no pinned viewlets (nothing stored,
\* an empty array, a non-array or an unparsable value), the viewlet shown by
\* restoreLastActiveViewlet (at construction) and the one refresh() asks for is
\* the first sidebar view container.
C13_FallbackFirstContainer ==
    LET parsed == JSONParse(IF storage.pinned = None THEN "[]" ELSE storage.pinned)
        noPinned == ~parsed.ok \/ ~parsed.array \/ Len(parsed.value) = 0
    IN (noPinned /\ Len(containers) > 0) =>
         /\ ( /\ lastOp.op \in {"construct", "reload"}
              /\ ~(lastOp.id # None /\ lastOp.id \in Range(containers)) ) =>
              widget.current = containers[1]
         /\ ~(storage.last # None /\ storage.last \in Range(containers)) =>
              RefreshTarget(storage, containers, None) = containers[1]

====
